---- MODULE Spec2Model ----
(***************************************************************************)
(* Future combinators of core/future-util.hh: parallel_for_each,           *)
(* do_for_each, repeat, repeat_until_value, do_until, keep_doing,           *)
(* map_reduce, when_all and with_timeout, modelled on one cooperative      *)
(* reactor thread; and two calls of repeat side by side, to compare them.  *)
(*                                                                         *)
(* A future is pending, ready with a value, or ready with an exception.    *)
(* A continuation attached to a ready future runs at once; one attached to *)
(* a pending future runs in a later reactor task, after the call that      *)
(* attached it has returned.  Exceptions are identified by the 1-based     *)
(* index of the element (or the number of the action call) that raised     *)
(* them, so that two failures never carry the same exception.              *)
(***************************************************************************)
EXTENDS Integers, Sequences, FiniteSets, TLC

\* Longest input range handed to a range combinator.
MaxRange == 3

\* Longest input range handed to do_for_each.
MaxSeqRange == 5

\* Most invocations of action one loop combinator is followed through.
MaxCalls == 3

\* Most futures handed to one when_all.
MaxFutures == 3

\* Latest deadline handed to with_timeout, in ticks of its Clock.
MaxDeadline == 3

\* A disengaged optional<exception_ptr>: no exception captured.
NoEx == 0

VARIABLES
    \* ---- parallel_for_each ----
    pfe_n,        \* std::distance(begin, end) of the call's range
    pfe_pc,       \* "idle" | "scan" | "returned_ready" | "returned"
    pfe_begin,    \* number of elements the iterator `begin` has passed
    pfe_fut,      \* pfe_fut[i]: what func(*begin++) did for element i
    state,        \* the parallel_for_each_state record
    launched,     \* elements func was invoked on, in invocation order
    landed,       \* exceptions in the order their failures were observed
    \* ---- do_for_each ----
    dfe_n,        \* std::distance(begin, end) of the call's range
    dfe_pc,       \* "idle" | "loop" | "waiting" | "last_wait" | "done"
    dfe_ctx,      \* "call": in the caller's frame; "continuation": in f.then(...)
    dfe_begin,    \* number of elements the iterator `begin` has passed
    dfe_fut,      \* dfe_fut[i]: what action(*begin++) did for element i
    dfe_ret,      \* how the call ended: the returned future, or a raw throw
    dfe_calls,    \* elements action was invoked on, in invocation order
    \* ---- repeat, repeat_until_value, do_until, keep_doing ----
    lp_comb,      \* which combinator was called
    lp_pc,        \* "idle" | "loop" | "waiting" | "queued" | "done"
    lp_calls,     \* number of invocations of action so far
    lp_last,      \* outcome of the latest invocation of action
    lp_ret,       \* the future returned to the caller
    lp_failed,    \* number of the first invocation that failed, or NoEx
    preempt,      \* what need_preempt() answers now
    lp_log,       \* what happened so far: outcomes of action and of stop_cond,
                  \* and "task" for each run of a scheduled task
    lp_depth,     \* frames of the combinator on the native stack
    lp_val,       \* payload of the returned future (repeat_until_value), or NoVal
    \* ---- map_reduce ----
    mr_overload,  \* "reducer": (mapper, Reducer r); "initial": (mapper, initial, reduce)
    mr_n,         \* std::distance(begin, end) of the call's range
    mr_pc,        \* "idle" | "scan" | "returned"
    mr_begin,     \* number of elements the iterator `begin` has passed
    mr_map,       \* mr_map[i]: the future of mapper(*begin++) for element i
    mr,           \* the chain of `ret` futures and the accumulator
    mr_ret,       \* the future returned to the caller
    \* ---- when_all ----
    wa_form,      \* "tuple": when_all(futs...); "range": when_all(begin, end)
    wa_n,         \* number of input futures
    wa_pc,        \* "idle" | "wait" | "returned"
    wa_in,        \* wa_in[i]: what the promise of input i holds now
    wa_slot,      \* the tuple / vector of futures held by the combinator
    wa_visited,   \* tuple form: the Idx for which wait<Idx>() has run
    wa_refs,      \* tuple form: the holders of the lw_shared when_all_state
    wa_pos,       \* range form: the iterator pos of complete_when_all
    wa_cont,      \* inputs a continuation is attached to
    wa_queue,     \* continuations whose input resolved, in the order they will run
    wa_order,     \* inputs that resolved after the call, in that order
    wa_ret,       \* the future returned to the caller
    wa_sets,      \* how often the returned future was given a result
    \* ---- with_timeout ----
    wt_factory,   \* the ExceptionFactory of the call
    wt_deadline,  \* the time point `timeout`
    wt_now,       \* Clock::now()
    wt_pc,        \* "idle" | "returned"
    wt_f,         \* the future f as it is handed to the call
    wt_late,      \* what f resolved to after the call, Fut("none") until then
    wt_ready_at,  \* Clock::now() when f resolved, NoTime until then
    wt_timer,     \* "none" | "armed" | "fired" | "cancelled"
    wt_cont,      \* the then_wrapped continuation: "none" | "attached" | "queued" | "done"
    wt_ret,       \* the future returned to the caller
    wt_sets,      \* how often the promise pr was given a result
    \* ---- two calls of repeat with the same action ----
    rp_script,    \* rp_script[k]: what invocation k of action does, in both calls
    rp_run        \* rp_run[r]: how far call r of repeat has got

pfeVars == <<pfe_n, pfe_pc, pfe_begin, pfe_fut, state, launched, landed>>

dfeVars == <<dfe_n, dfe_pc, dfe_ctx, dfe_begin, dfe_fut, dfe_ret, dfe_calls>>

lpVars == <<lp_comb, lp_pc, lp_calls, lp_last, lp_ret, lp_failed, preempt,
           lp_log, lp_depth, lp_val>>

mrVars == <<mr_overload, mr_n, mr_pc, mr_begin, mr_map, mr, mr_ret>>

waVars == <<wa_form, wa_n, wa_pc, wa_in, wa_slot, wa_visited, wa_refs, wa_pos,
           wa_cont, wa_queue, wa_order, wa_ret, wa_sets>>

wtVars == <<wt_factory, wt_deadline, wt_now, wt_pc, wt_f, wt_late, wt_ready_at,
           wt_timer, wt_cont,
           wt_ret, wt_sets>>

rpVars == <<rp_script, rp_run>>

vars == <<pfeVars, dfeVars, lpVars, mrVars, waVars, wtVars, rpVars>>

\* What a step of one combinator leaves alone: the state of the others.
notPfe == <<dfeVars, lpVars, mrVars, waVars, wtVars, rpVars>>

notDfe == <<pfeVars, lpVars, mrVars, waVars, wtVars, rpVars>>

notLp == <<pfeVars, dfeVars, mrVars, waVars, wtVars, rpVars>>

notMr == <<pfeVars, dfeVars, lpVars, waVars, wtVars, rpVars>>

notWa == <<pfeVars, dfeVars, lpVars, mrVars, wtVars, rpVars>>

notWt == <<pfeVars, dfeVars, lpVars, mrVars, waVars, rpVars>>

notRp == <<pfeVars, dfeVars, lpVars, mrVars, waVars, wtVars>>

\* No point in time.
NoTime == -1

\* A future that carries no payload.
NoVal == 0

\* A future (or call outcome) with no exception attached.
Fut(st) == [st |-> st, ex |-> NoEx]

\* A future that failed with exception e.
Failed(e) == [st |-> "exception", ex |-> e]

Range(n) == 1..n

Iota(n) == [i \in 1..n |-> i]

(***************************************************************************)
(* parallel_for_each                                                       *)
(***************************************************************************)

\* parallel_for_each_state as default-constructed by do_with; `sets` counts
\* the calls of pr.set_value / pr.set_exception.
NewState == [ex |-> NoEx, waiting |-> 0, pr |-> "unset", pr_ex |-> NoEx, sets |-> 0]

complete_IgnoreEx(s) ==
    LET w == s.waiting - 1 IN
    IF w = 0
    THEN [s EXCEPT !.waiting = w, !.pr = "value", !.sets = @ + 1]
    ELSE [s EXCEPT !.waiting = w]

\* parallel_for_each_state::complete
complete(s) ==
    LET w == s.waiting - 1 IN
    IF w = 0
    THEN IF s.ex # NoEx
         THEN [s EXCEPT !.waiting = w, !.pr = "exception", !.pr_ex = s.ex, !.sets = @ + 1]
         ELSE [s EXCEPT !.waiting = w, !.pr = "value", !.sets = @ + 1]
    ELSE [s EXCEPT !.waiting = w]

StoreEx_Overwrite(s, e) == [s EXCEPT !.ex = e]

\* if (!state.ex) { state.ex = ...; }  (else the later exception is dropped)
StoreEx(s, e) == IF s.ex = NoEx THEN [s EXCEPT !.ex = e] ELSE s

EnterScan_NoGuard(s) == s

\* ++state.waiting before the loop: "increase ref count to ensure all functions run"
EnterScan(s) == [s EXCEPT !.waiting = @ + 1]

AdvanceBegin_StopOnThrow(b, n, threw) == IF threw THEN n ELSE b + 1

\* *begin++ : the iterator moves on whatever func did with the element
AdvanceBegin(b, n, threw) == b + 1

\* What one invocation of func can do.
LaunchOutcomes == {"throw", "ready_ok", "ready_failed", "pending"}

\* The combinators that are not called in a behaviour stay as constructed.
PfeIdle ==
    /\ pfe_n = 0
    /\ pfe_pc = "idle"
    /\ pfe_begin = 0
    /\ pfe_fut = [i \in Range(MaxRange) |-> "none"]
    /\ state = NewState
    /\ launched = <<>>
    /\ landed = <<>>

DfeIdle ==
    /\ dfe_n = 0
    /\ dfe_pc = "idle"
    /\ dfe_ctx = "call"
    /\ dfe_begin = 0
    /\ dfe_fut = [i \in Range(MaxSeqRange) |-> "none"]
    /\ dfe_ret = Fut("none")
    /\ dfe_calls = <<>>

LpIdle ==
    /\ lp_comb = "repeat"
    /\ lp_pc = "idle"
    /\ lp_calls = 0
    /\ lp_last = "none"
    /\ lp_ret = Fut("none")
    /\ lp_failed = NoEx
    /\ preempt = FALSE
    /\ lp_log = <<>>
    /\ lp_depth = 0
    /\ lp_val = NoVal

\* A future<> of map_reduce's chain, or its result carrying the value val.
MrFut(st, e, val) == [st |-> st, ex |-> e, val |-> val]

\* ret, r_ptr / s as set up at the top of map_reduce: no continuation has
\* run, nothing was folded, the accumulator holds the initial value.
NewChain ==
    [ret   |-> [i \in Range(MaxRange) |-> MrFut("pending", NoEx, <<>>)],
     link  |-> [i \in Range(MaxRange) |-> "none"],
     cons  |-> [i \in Range(MaxRange) |-> "none"],
     acc   |-> <<>>,
     folds |-> <<>>,
     late  |-> {}]

MrIdle ==
    /\ mr_overload = "reducer"
    /\ mr_n = 0
    /\ mr_pc = "idle"
    /\ mr_begin = 0
    /\ mr_map = [i \in Range(MaxRange) |-> "none"]
    /\ mr = NewChain
    /\ mr_ret = MrFut("none", NoEx, <<>>)

\* A slot of the tuple / vector of when_all: the state of the future in it
\* and the input whose outcome it holds.
Slot(st, src) == [st |-> st, src |-> src]

\* No future of when_all returned yet.
NoRet == [st |-> "none", val |-> <<>>]

WaIdle ==
    /\ wa_form = "tuple"
    /\ wa_n = 0
    /\ wa_pc = "idle"
    /\ wa_in = [i \in Range(MaxFutures) |-> "none"]
    /\ wa_slot = [i \in Range(MaxFutures) |-> Slot("none", 0)]
    /\ wa_visited = {}
    /\ wa_refs = {}
    /\ wa_pos = 0
    /\ wa_cont = {}
    /\ wa_queue = <<>>
    /\ wa_order = <<>>
    /\ wa_ret = NoRet
    /\ wa_sets = 0

WtIdle ==
    /\ wt_factory = "default"
    /\ wt_deadline = 0
    /\ wt_now = 0
    /\ wt_pc = "idle"
    /\ wt_f = Fut("pending")
    /\ wt_late = Fut("none")
    /\ wt_ready_at = NoTime
    /\ wt_timer = "none"
    /\ wt_cont = "none"
    /\ wt_ret = Fut("none")
    /\ wt_sets = 0

\* A call of repeat that has not been made: no invocation of action, nothing
\* returned, no task run.
NewRun == [pc |-> "idle", calls |-> 0, ret |-> Fut("none"), log |-> <<>>, yields |-> 0]

RpIdle ==
    /\ rp_script = [k \in Range(MaxCalls) |-> "ready_stop"]
    /\ rp_run = <<NewRun, NewRun>>

NotPfeIdle == DfeIdle /\ LpIdle /\ MrIdle /\ WaIdle /\ WtIdle /\ RpIdle

NotDfeIdle == PfeIdle /\ LpIdle /\ MrIdle /\ WaIdle /\ WtIdle /\ RpIdle

NotLpIdle == PfeIdle /\ DfeIdle /\ MrIdle /\ WaIdle /\ WtIdle /\ RpIdle

NotMrIdle == PfeIdle /\ DfeIdle /\ LpIdle /\ WaIdle /\ WtIdle /\ RpIdle

NotWaIdle == PfeIdle /\ DfeIdle /\ LpIdle /\ MrIdle /\ WtIdle /\ RpIdle

NotWtIdle == PfeIdle /\ DfeIdle /\ LpIdle /\ MrIdle /\ WaIdle /\ RpIdle

NotRpIdle == PfeIdle /\ DfeIdle /\ LpIdle /\ MrIdle /\ WaIdle /\ WtIdle

PfeInit ==
    /\ NotPfeIdle
    /\ pfe_n \in 0..MaxRange
    /\ pfe_pc = "idle"
    /\ pfe_begin = 0
    /\ pfe_fut = [i \in Range(MaxRange) |-> "none"]
    /\ state = NewState
    /\ launched = <<>>
    /\ landed = <<>>

\* Entry of parallel_for_each: empty range, or do_with(state) and the guard.
PfeCall ==
    /\ pfe_pc = "idle"
    /\ IF pfe_n = 0
       THEN /\ pfe_pc' = "returned_ready"
            /\ state' = state
       ELSE /\ pfe_pc' = "scan"
            /\ state' = EnterScan(state)
    /\ UNCHANGED <<pfe_n, pfe_begin, pfe_fut, launched, landed, notPfe>>

\* One iteration of while (begin != end): invoke func on the next element.
PfeLaunch ==
    /\ pfe_pc = "scan"
    /\ pfe_begin < pfe_n
    /\ \E o \in LaunchOutcomes :
        LET i  == pfe_begin + 1
            s1 == [state EXCEPT !.waiting = @ + 1]
        IN  /\ launched' = Append(launched, i)
            /\ pfe_begin' = AdvanceBegin(pfe_begin, pfe_n, o = "throw")
            /\ CASE o = "throw" ->
                      /\ pfe_fut' = [pfe_fut EXCEPT ![i] = "thrown"]
                      /\ state' = complete(StoreEx(s1, i))
                      /\ landed' = Append(landed, i)
                 [] o = "ready_ok" ->
                      /\ pfe_fut' = [pfe_fut EXCEPT ![i] = "ready_ok"]
                      /\ state' = complete(s1)
                      /\ landed' = landed
                 [] o = "ready_failed" ->
                      /\ pfe_fut' = [pfe_fut EXCEPT ![i] = "ready_failed"]
                      /\ state' = complete(StoreEx(s1, i))
                      /\ landed' = Append(landed, i)
                 [] o = "pending" ->
                      /\ pfe_fut' = [pfe_fut EXCEPT ![i] = "pending"]
                      /\ state' = s1
                      /\ landed' = landed
    /\ UNCHANGED <<pfe_n, pfe_pc, notPfe>>

\* begin == end: "match increment on top", return state.pr.get_future().
PfeScanEnd ==
    /\ pfe_pc = "scan"
    /\ pfe_begin >= pfe_n
    /\ state' = complete(state)
    /\ pfe_pc' = "returned"
    /\ UNCHANGED <<pfe_n, pfe_begin, pfe_fut, launched, landed, notPfe>>

\* A pending future of element i resolves; its then_wrapped continuation runs.
PfeResolve(i) ==
    /\ pfe_pc = "returned"
    /\ pfe_fut[i] = "pending"
    /\ \E ok \in BOOLEAN :
        IF ok
        THEN /\ pfe_fut' = [pfe_fut EXCEPT ![i] = "resolved_ok"]
             /\ state' = complete(state)
             /\ landed' = landed
        ELSE /\ pfe_fut' = [pfe_fut EXCEPT ![i] = "resolved_failed"]
             /\ state' = complete(StoreEx(state, i))
             /\ landed' = Append(landed, i)
    /\ UNCHANGED <<pfe_n, pfe_pc, pfe_begin, launched, notPfe>>

PfeNext ==
    \/ PfeCall
    \/ PfeLaunch
    \/ PfeScanEnd
    \/ \E i \in Range(MaxRange) : PfeResolve(i)

SpecPFE == PfeInit /\ [][PfeNext]_vars

(***************************************************************************)
(* parallel_for_each: properties                                           *)
(***************************************************************************)

PfeFailed(i) == pfe_fut[i] \in {"thrown", "ready_failed", "resolved_failed"}

PfeSucceeded(i) == pfe_fut[i] \in {"ready_ok", "resolved_ok"}

\* The future parallel_for_each handed to its caller.
PfeResult == IF pfe_pc = "returned_ready" THEN "value" ELSE state.pr

PfeResolvedOnlyWhenDrained ==
    /\ state.sets <= 1
    /\ (pfe_pc = "scan" => (state.waiting >= 1 /\ state.pr = "unset"))
    /\ (state.pr # "unset" =>
            /\ pfe_pc = "returned"
            /\ state.waiting = 0
            /\ \A i \in Range(pfe_n) : pfe_fut[i] \notin {"none", "pending"})
    /\ ((pfe_pc = "returned" /\ \A i \in Range(pfe_n) : pfe_fut[i] # "pending")
            => state.sets = 1)

PfeSetAtZero ==
    (state'.sets # state.sets) <=> (state.waiting # 0 /\ state'.waiting = 0)

\* C4: for a non-empty range the promise of the shared state is set exactly
\* once, in the very step that takes the pending-count to zero; the count
\* stays at least one during the scan, so the promise is never set while the
\* scan is running or while a launched operation is still pending.
C4_ResolvedExactlyOnceAtZero ==
    []PfeResolvedOnlyWhenDrained /\ [][PfeSetAtZero]_vars

\* C4 witness: the promise was set after a synchronous throw, a synchronous
\* completion and a later asynchronous completion.
C4_Witness ==
    /\ state.pr # "unset"
    /\ pfe_n = 3
    /\ \E i \in Range(pfe_n) : pfe_fut[i] = "thrown"
    /\ \E i \in Range(pfe_n) : pfe_fut[i] = "ready_ok"
    /\ \E i \in Range(pfe_n) : pfe_fut[i] \in {"resolved_ok", "resolved_failed"}

\* C5: the result is a success iff every invocation of func succeeded; when
\* some failed, the result carries exactly one exception, raised by one of
\* the failed invocations; once nothing is pending the result is resolved.
C5_SuccessIffAllSucceed ==
    /\ (PfeResult = "value" => \A i \in Range(pfe_n) : PfeSucceeded(i))
    /\ (PfeResult = "exception" =>
            /\ state.pr_ex \in Range(pfe_n)
            /\ PfeFailed(state.pr_ex)
            /\ state.sets = 1)
    /\ ((pfe_pc = "returned" /\ \A i \in Range(pfe_n) : PfeSucceeded(i))
            => PfeResult = "value")
    /\ ((pfe_pc = "returned" /\ (\E i \in Range(pfe_n) : PfeFailed(i))
            /\ \A i \in Range(pfe_n) : pfe_fut[i] # "pending")
            => PfeResult = "exception")

\* C5 witness: two invocations failed and the result holds one of the two.
C5_Witness ==
    /\ PfeResult = "exception"
    /\ Cardinality({i \in Range(pfe_n) : PfeFailed(i)}) >= 2
    /\ \E i \in Range(pfe_n) : PfeSucceeded(i)

\* C6: the captured exception is that of the failure observed first (a
\* synchronous throw or a failed completion), whatever the position of the
\* failing element; later failures never replace it.
C6_FirstLandedWins ==
    /\ (landed # <<>> => state.ex = Head(landed))
    /\ (landed = <<>> => state.ex = NoEx)
    /\ (PfeResult = "exception" => state.pr_ex = Head(landed))

\* C6 witness: the last element failed first, the first element failed
\* later, and the result carries the exception of the last element.
C6_Witness ==
    /\ PfeResult = "exception"
    /\ Len(landed) >= 2
    /\ Head(landed) > landed[2]
    /\ state.pr_ex = Head(landed)

\* C7: func is invoked on every element, in input order, before the call
\* returns, whether or not earlier elements threw, failed or are pending.
C7_AllLaunchedInOrder ==
    /\ launched = Iota(pfe_begin)
    /\ pfe_begin <= pfe_n
    /\ (pfe_pc = "returned" => launched = Iota(pfe_n))
    /\ (pfe_pc = "scan" => \A i \in Range(pfe_n) :
            pfe_fut[i] \notin {"resolved_ok", "resolved_failed"})

\* C7 witness: the call has returned with every element launched although
\* the first element threw and the second is still pending.
C7_Witness ==
    /\ pfe_pc = "returned"
    /\ pfe_n = 3
    /\ pfe_fut[1] = "thrown"
    /\ pfe_fut[2] = "pending"
    /\ launched = <<1, 2, 3>>

(***************************************************************************)
(* do_for_each                                                             *)
(***************************************************************************)

\* How a synchronous throw of action leaves do_for_each.  The loop has no
\* try block: in the caller's frame the exception leaves the call and no
\* future is returned; inside the f.then(...) continuation then() catches it
\* and fails the future it had returned.
DfeThrow(ctx, e) ==
    IF ctx = "call" THEN [st |-> "thrown", ex |-> e] ELSE Failed(e)

DfeOnPending_KeepGoing(last) == IF last THEN "last_wait" ELSE "loop"

\* Where the loop goes when f is not available: "return f" for the last
\* element, otherwise "return f.then(...)" and the loop resumes in there.
DfeOnPending(last) == IF last THEN "last_wait" ELSE "waiting"

DfeInit ==
    /\ NotDfeIdle
    /\ dfe_n \in 0..MaxSeqRange
    /\ dfe_pc = "idle"
    /\ dfe_ctx = "call"
    /\ dfe_begin = 0
    /\ dfe_fut = [i \in Range(MaxSeqRange) |-> "none"]
    /\ dfe_ret = Fut("none")
    /\ dfe_calls = <<>>

\* Entry of do_for_each: an empty range gives a ready future.
DfeCall ==
    /\ dfe_pc = "idle"
    /\ IF dfe_n = 0
       THEN /\ dfe_pc' = "done"
            /\ dfe_ret' = Fut("value")
       ELSE /\ dfe_pc' = "loop"
            /\ dfe_ret' = dfe_ret
    /\ UNCHANGED <<dfe_n, dfe_ctx, dfe_begin, dfe_fut, dfe_calls, notDfe>>

\* One iteration of while (true): auto f = action(*begin++); ...
DfeStep ==
    /\ dfe_pc = "loop"
    /\ \E o \in LaunchOutcomes :
        LET i    == dfe_begin + 1
            last == (i = dfe_n)
        IN  /\ dfe_begin' = i
            /\ dfe_calls' = Append(dfe_calls, i)
            /\ CASE o = "throw" ->
                      /\ dfe_fut' = [dfe_fut EXCEPT ![i] = "thrown"]
                      /\ dfe_ret' = DfeThrow(dfe_ctx, i)
                      /\ dfe_pc' = "done"
                 [] o = "ready_ok" ->
                      /\ dfe_fut' = [dfe_fut EXCEPT ![i] = "ready_ok"]
                      /\ dfe_ret' = IF last THEN Fut("value") ELSE dfe_ret
                      /\ dfe_pc' = IF last THEN "done" ELSE "loop"
                 [] o = "ready_failed" ->
                      /\ dfe_fut' = [dfe_fut EXCEPT ![i] = "ready_failed"]
                      /\ dfe_ret' = Failed(i)
                      /\ dfe_pc' = "done"
                 [] o = "pending" ->
                      /\ dfe_fut' = [dfe_fut EXCEPT ![i] = "pending"]
                      /\ dfe_ret' = Fut("pending")
                      /\ dfe_pc' = DfeOnPending(last)
    /\ UNCHANGED <<dfe_n, dfe_ctx, notDfe>>

\* The pending future of a non-last element resolves: then() runs the
\* continuation, which calls do_for_each on the rest, or skips it on failure.
DfeResolve ==
    /\ dfe_pc = "waiting"
    /\ dfe_fut[dfe_begin] = "pending"
    /\ \E ok \in BOOLEAN :
        IF ok
        THEN /\ dfe_fut' = [dfe_fut EXCEPT ![dfe_begin] = "resolved_ok"]
             /\ dfe_pc' = "loop"
             /\ dfe_ctx' = "continuation"
             /\ dfe_ret' = dfe_ret
        ELSE /\ dfe_fut' = [dfe_fut EXCEPT ![dfe_begin] = "resolved_failed"]
             /\ dfe_pc' = "done"
             /\ dfe_ctx' = dfe_ctx
             /\ dfe_ret' = Failed(dfe_begin)
    /\ UNCHANGED <<dfe_n, dfe_begin, dfe_calls, notDfe>>

\* The pending future of the last element, returned as the result, resolves.
DfeLastResolve ==
    /\ dfe_pc = "last_wait"
    /\ dfe_fut[dfe_begin] = "pending"
    /\ \E ok \in BOOLEAN :
        IF ok
        THEN /\ dfe_fut' = [dfe_fut EXCEPT ![dfe_begin] = "resolved_ok"]
             /\ dfe_ret' = Fut("value")
        ELSE /\ dfe_fut' = [dfe_fut EXCEPT ![dfe_begin] = "resolved_failed"]
             /\ dfe_ret' = Failed(dfe_begin)
    /\ dfe_pc' = "done"
    /\ UNCHANGED <<dfe_n, dfe_ctx, dfe_begin, dfe_calls, notDfe>>

DfeNext ==
    \/ DfeCall
    \/ DfeStep
    \/ DfeResolve
    \/ DfeLastResolve

SpecDFE == DfeInit /\ [][DfeNext]_vars

(***************************************************************************)
(* do_for_each: properties                                                 *)
(***************************************************************************)

DfeFailed(i) == dfe_fut[i] \in {"thrown", "ready_failed", "resolved_failed"}

\* C8: action is invoked on the elements in input order, an element is
\* invoked only once the futures of all earlier elements have resolved, and
\* a successful result means every element was invoked exactly once.
C8_SequentialInOrder ==
    /\ dfe_calls = Iota(Len(dfe_calls))
    /\ Len(dfe_calls) <= dfe_n
    /\ \A i, j \in Range(dfe_n) :
          (i < j /\ dfe_fut[j] # "none") => dfe_fut[i] \in {"ready_ok", "resolved_ok"}
    /\ Cardinality({i \in Range(dfe_n) : dfe_fut[i] = "pending"}) <= 1
    /\ (dfe_ret.st = "value" => dfe_calls = Iota(dfe_n))

\* C8 witness: a successful run over three elements in which the first
\* future was pending when returned and the second was already ready.
C8_Witness ==
    /\ dfe_ret.st = "value"
    /\ dfe_n = 3
    /\ dfe_fut[1] = "resolved_ok"
    /\ dfe_fut[2] = "ready_ok"
    /\ dfe_calls = <<1, 2, 3>>

\* C9: when the action of an element throws or its future fails, no later
\* element is invoked and the future returned by do_for_each holds that
\* exception.
C9_FailurePropagatesInFuture ==
    \A i \in Range(dfe_n) :
        DfeFailed(i) =>
            /\ \A j \in Range(dfe_n) : j > i => dfe_fut[j] = "none"
            /\ dfe_ret = Failed(i)

(***************************************************************************)
(* repeat, repeat_until_value, do_until, keep_doing                        *)
(***************************************************************************)

Combinators == {"repeat", "repeat_until_value", "do_until", "keep_doing"}

\* What one invocation of action can do before it returns.  The action of
\* repeat and repeat_until_value can ask to stop (stop_iteration::yes, an
\* engaged optional); keep_doing maps every success to stop_iteration::no and
\* the future<> of do_until carries no stop request.
CallOutcomes(c) ==
    {"throw", "ready_continue", "ready_failed", "pending"}
        \cup (IF c \in {"repeat", "repeat_until_value"} THEN {"ready_stop"} ELSE {})

\* How a future that was pending can resolve.
LateOutcomes(c) ==
    {"resolved_continue", "resolved_failed"}
        \cup (IF c \in {"repeat", "repeat_until_value"} THEN {"resolved_stop"} ELSE {})

FailureOutcomes == {"throw", "ready_failed", "resolved_failed"}

RepeatOutcome_RetryFailure(o, np, k, ret) ==
    CASE o \in FailureOutcomes -> [pc |-> "loop", ret |-> ret]
      [] o \in {"ready_stop", "resolved_stop"} -> [pc |-> "done", ret |-> Fut("value")]
      [] o = "pending" -> [pc |-> "waiting", ret |-> Fut("pending")]
      [] o = "ready_continue" ->
            IF np THEN [pc |-> "queued", ret |-> Fut("pending")]
                  ELSE [pc |-> "loop", ret |-> ret]
      [] o = "resolved_continue" -> [pc |-> "loop", ret |-> ret]

RepeatOutcome_NoPreemptCheck(o, np, k, ret) ==
    CASE o \in FailureOutcomes -> [pc |-> "done", ret |-> Failed(k)]
      [] o \in {"ready_stop", "resolved_stop"} -> [pc |-> "done", ret |-> Fut("value")]
      [] o = "pending" -> [pc |-> "waiting", ret |-> Fut("pending")]
      [] o \in {"ready_continue", "resolved_continue"} -> [pc |-> "loop", ret |-> ret]

RepeatOutcome_BreakOnPreempt(o, np, k, ret) ==
    CASE o \in FailureOutcomes -> [pc |-> "done", ret |-> Failed(k)]
      [] o \in {"ready_stop", "resolved_stop"} -> [pc |-> "done", ret |-> Fut("value")]
      [] o = "pending" -> [pc |-> "waiting", ret |-> Fut("pending")]
      [] o = "ready_continue" ->
            IF np THEN [pc |-> "done", ret |-> Fut("value")]
                  ELSE [pc |-> "loop", ret |-> ret]
      [] o = "resolved_continue" -> [pc |-> "loop", ret |-> ret]

RepeatOutcome_PreemptBeforeStop(o, np, k, ret) ==
    CASE o \in FailureOutcomes -> [pc |-> "done", ret |-> Failed(k)]
      [] o = "resolved_stop" -> [pc |-> "done", ret |-> Fut("value")]
      [] o = "pending" -> [pc |-> "waiting", ret |-> Fut("pending")]
      [] o \in {"ready_continue", "ready_stop"} /\ np ->
            [pc |-> "queued", ret |-> Fut("pending")]
      [] o = "ready_stop" /\ ~np -> [pc |-> "done", ret |-> Fut("value")]
      [] o = "ready_continue" /\ ~np -> [pc |-> "loop", ret |-> ret]
      [] o = "resolved_continue" -> [pc |-> "loop", ret |-> ret]

\* repeat, for outcome o of invocation k of action, np being the answer of
\* need_preempt(): a throw becomes a failed future in futurator::apply, get0()
\* rethrows it into catch (...); a pending future gets the f.then(...)
\* continuation, which stops, or calls repeat again; a ready "no" loops while
\* (!need_preempt()) and otherwise schedules a task that calls repeat.
RepeatOutcome(o, np, k, ret) ==
    CASE o \in FailureOutcomes -> [pc |-> "done", ret |-> Failed(k)]
      [] o \in {"ready_stop", "resolved_stop"} -> [pc |-> "done", ret |-> Fut("value")]
      [] o = "pending" -> [pc |-> "waiting", ret |-> Fut("pending")]
      [] o = "ready_continue" ->
            IF np THEN [pc |-> "queued", ret |-> Fut("pending")]
                  ELSE [pc |-> "loop", ret |-> ret]
      [] o = "resolved_continue" -> [pc |-> "loop", ret |-> ret]

RepeatUntilValueOutcome_DropLateValue(o, np, k, ret) ==
    CASE o \in FailureOutcomes -> [pc |-> "done", ret |-> Failed(k)]
      [] o = "ready_stop" -> [pc |-> "done", ret |-> Fut("value")]
      [] o = "pending" -> [pc |-> "waiting", ret |-> Fut("pending")]
      [] o = "ready_continue" ->
            IF np THEN [pc |-> "queued", ret |-> Fut("pending")]
                  ELSE [pc |-> "loop", ret |-> ret]
      [] o \in {"resolved_continue", "resolved_stop"} -> [pc |-> "loop", ret |-> ret]

\* repeat_until_value: as repeat, with f.failed() tested in place of the
\* catch block and an engaged optional in place of stop_iteration::yes.
RepeatUntilValueOutcome(o, np, k, ret) ==
    CASE o \in FailureOutcomes -> [pc |-> "done", ret |-> Failed(k)]
      [] o \in {"ready_stop", "resolved_stop"} -> [pc |-> "done", ret |-> Fut("value")]
      [] o = "pending" -> [pc |-> "waiting", ret |-> Fut("pending")]
      [] o = "ready_continue" ->
            IF np THEN [pc |-> "queued", ret |-> Fut("pending")]
                  ELSE [pc |-> "loop", ret |-> ret]
      [] o = "resolved_continue" -> [pc |-> "loop", ret |-> ret]

\* do_until_continued: catch (...) and the failed-future paths set the
\* exception on p; a pending future gets the then_wrapped continuation; a
\* ready success goes straight back to while (!stop_cond()): need_preempt()
\* is not consulted, so np is not read.
DoUntilOutcome(o, np, k, ret) ==
    CASE o \in FailureOutcomes -> [pc |-> "done", ret |-> Failed(k)]
      [] o = "pending" -> [pc |-> "waiting", ret |-> Fut("pending")]
      [] o \in {"ready_continue", "resolved_continue"} -> [pc |-> "loop", ret |-> ret]

Outcome_WrapperStops(c, o, np, k, ret) ==
    CASE c = "repeat" -> RepeatOutcome(o, np, k, ret)
      [] c = "keep_doing" ->
            RepeatOutcome(IF o = "ready_continue" THEN "ready_stop" ELSE o, np, k, ret)
      [] c = "repeat_until_value" -> RepeatUntilValueOutcome(o, np, k, ret)
      [] c = "do_until" -> DoUntilOutcome(o, np, k, ret)

\* keep_doing(action) is repeat of a wrapper around action.
Outcome(c, o, np, k, ret) ==
    CASE c \in {"repeat", "keep_doing"} -> RepeatOutcome(o, np, k, ret)
      [] c = "repeat_until_value" -> RepeatUntilValueOutcome(o, np, k, ret)
      [] c = "do_until" -> DoUntilOutcome(o, np, k, ret)

\* The frames on the stack after an iteration that leaves control at pc: the
\* do-while / while loops iterate in the frame they are in, and every way
\* out of the loop is a return.
IterDepth(d, pc) == IF pc = "loop" THEN d ELSE 0

\* The payload of the returned future after outcome o of invocation k:
\* repeat_until_value passes on optional.value() of the engaged optional (the
\* value produced by invocation k is k); the other loops return future<>.
Payload(c, o, k, v) ==
    IF c = "repeat_until_value" /\ o \in {"ready_stop", "resolved_stop"} THEN k ELSE v

StopNow_DoWhile(stop, calls) == stop /\ calls > 0

\* while (!stop_cond()): the loop is left as soon as stop_cond() is true.
StopNow(stop, calls) == stop

\* The log entry of one evaluation of stop_cond.
CondEntry(stop) == IF stop THEN "cond_true" ELSE "cond_false"

\* The first invocation that failed.
NoteFailure(o, k, f) == IF o \in FailureOutcomes /\ f = NoEx THEN k ELSE f

LpInit ==
    /\ NotLpIdle
    /\ lp_comb \in Combinators
    /\ lp_pc = "idle"
    /\ lp_calls = 0
    /\ lp_last = "none"
    /\ lp_ret = Fut("none")
    /\ lp_failed = NoEx
    /\ preempt \in BOOLEAN
    /\ lp_log = <<>>
    /\ lp_depth = 0
    /\ lp_val = NoVal

\* The caller calls the combinator; control enters its loop.
LpCall ==
    /\ lp_pc = "idle"
    /\ lp_pc' = "loop"
    /\ lp_depth' = 1
    /\ UNCHANGED <<lp_comb, lp_calls, lp_last, lp_ret, lp_failed, preempt,
                   lp_log, lp_val, notLp>>

\* One iteration of the do-while of repeat / repeat_until_value (keep_doing
\* runs the one of repeat): invoke action, look at the future it returned.
RepeatIter ==
    /\ lp_comb \in {"repeat", "repeat_until_value", "keep_doing"}
    /\ lp_pc = "loop"
    /\ lp_calls < MaxCalls
    /\ \E o \in CallOutcomes(lp_comb) :
        LET k == lp_calls + 1
            r == Outcome(lp_comb, o, preempt, k, lp_ret)
        IN  /\ lp_calls' = k
            /\ lp_last' = o
            /\ lp_pc' = r.pc
            /\ lp_ret' = r.ret
            /\ lp_failed' = NoteFailure(o, k, lp_failed)
            /\ lp_log' = Append(lp_log, o)
            /\ lp_depth' = IterDepth(lp_depth, r.pc)
            /\ lp_val' = Payload(lp_comb, o, k, lp_val)
    /\ UNCHANGED <<lp_comb, preempt, notLp>>

\* One iteration of while (!stop_cond()) of do_until_continued.
DoUntilIter ==
    /\ lp_comb = "do_until"
    /\ lp_pc = "loop"
    /\ \E stop \in BOOLEAN :
        IF StopNow(stop, lp_calls)
        THEN /\ lp_pc' = "done"
             /\ lp_ret' = Fut("value")
             /\ lp_log' = Append(lp_log, CondEntry(stop))
             /\ lp_depth' = 0
             /\ UNCHANGED <<lp_calls, lp_last, lp_failed, lp_val>>
        ELSE /\ lp_calls < MaxCalls
             /\ \E o \in CallOutcomes(lp_comb) :
                 LET k == lp_calls + 1
                     r == Outcome(lp_comb, o, preempt, k, lp_ret)
                 IN  /\ lp_calls' = k
                     /\ lp_last' = o
                     /\ lp_pc' = r.pc
                     /\ lp_ret' = r.ret
                     /\ lp_failed' = NoteFailure(o, k, lp_failed)
                     /\ lp_log' = lp_log \o <<CondEntry(stop), o>>
                     /\ lp_depth' = IterDepth(lp_depth, r.pc)
                     /\ lp_val' = Payload(lp_comb, o, k, lp_val)
    /\ UNCHANGED <<lp_comb, preempt, notLp>>

\* The pending future of the latest invocation resolves and the continuation
\* attached to it (f.then / f.then_wrapped) runs in a reactor task.
LpResolve ==
    /\ lp_pc = "waiting"
    /\ \E o \in LateOutcomes(lp_comb) :
        LET r == Outcome(lp_comb, o, preempt, lp_calls, lp_ret)
        IN  /\ lp_last' = o
            /\ lp_pc' = r.pc
            /\ lp_ret' = r.ret
            /\ lp_failed' = NoteFailure(o, lp_calls, lp_failed)
            /\ lp_log' = Append(lp_log, o)
            /\ lp_depth' = IterDepth(1, r.pc)
            /\ lp_val' = Payload(lp_comb, o, lp_calls, lp_val)
    /\ UNCHANGED <<lp_comb, lp_calls, preempt, notLp>>

\* The reactor runs the task scheduled by repeat / repeat_until_value: it
\* calls the combinator again and forwards its future to the promise.
RunTask ==
    /\ lp_pc = "queued"
    /\ lp_pc' = "loop"
    /\ lp_log' = Append(lp_log, "task")
    /\ lp_depth' = 1
    /\ UNCHANGED <<lp_comb, lp_calls, lp_last, lp_ret, lp_failed, preempt, lp_val, notLp>>

\* The task quota of the running task expires: need_preempt() turns true.
QuotaExpire ==
    /\ lp_pc \in {"loop", "waiting", "queued"}
    /\ ~preempt
    /\ preempt' = TRUE
    /\ UNCHANGED <<lp_comb, lp_pc, lp_calls, lp_last, lp_ret, lp_failed,
                   lp_log, lp_depth, lp_val, notLp>>

\* Back in the reactor, a fresh quota is granted: need_preempt() turns false.
QuotaRenew ==
    /\ lp_pc \in {"waiting", "queued"}
    /\ preempt
    /\ preempt' = FALSE
    /\ UNCHANGED <<lp_comb, lp_pc, lp_calls, lp_last, lp_ret, lp_failed,
                   lp_log, lp_depth, lp_val, notLp>>

LpNext ==
    \/ LpCall
    \/ RepeatIter
    \/ DoUntilIter
    \/ LpResolve
    \/ RunTask
    \/ QuotaExpire
    \/ QuotaRenew

SpecLoop == LpInit /\ [][LpNext]_vars

(***************************************************************************)
(* loop combinators: properties                                            *)
(***************************************************************************)

\* This step invoked action and its future was ready with "continue".
SyncContinueStep == lp_calls' = lp_calls + 1 /\ lp_last' = "ready_continue"

\* C3: in every loop combinator, a step that completed synchronously while
\* need_preempt() answers "must yield" ends the synchronous iteration: a
\* task is queued, the caller holds a pending future, and action is not
\* invoked again until that task runs.
C3_YieldsWhenPreempted ==
    [][ /\ (SyncContinueStep /\ preempt) =>
              (lp_pc' = "queued" /\ lp_ret' = Fut("pending"))
        /\ lp_pc = "queued" => lp_calls' = lp_calls ]_vars

\* C10: once an invocation of action has failed (thrown, returned a failed
\* future, or returned a future that failed later) the combinator is done,
\* action is not invoked again, and the returned future holds the exception
\* of that invocation.
C10_FailureIsTerminal ==
    lp_failed # NoEx =>
        /\ lp_pc = "done"
        /\ lp_calls = lp_failed
        /\ lp_ret = Failed(lp_failed)

\* C10 witness: two invocations succeeded, the third returned a pending
\* future which later failed, and the result holds its exception.
C10_Witness ==
    /\ lp_failed = 3
    /\ lp_last = "resolved_failed"
    /\ lp_ret = Failed(3)
    /\ lp_pc = "done"

\* The log entries that stand for an invocation of action.
CallEntries == {"throw", "ready_continue", "ready_failed", "pending", "ready_stop"}

StopEntries == {"ready_stop", "resolved_stop"}

ContinueEntries == {"ready_continue", "resolved_continue"}

\* The invocation that entry i of the log belongs to.
CallNo(log, i) == Cardinality({j \in 1..i : log[j] \in CallEntries})

\* The returned future is resolved.
LpResolved == lp_ret.st \in {"value", "exception"}

\* What a step of repeat / repeat_until_value does about preemption.
RepeatYields ==
    lp_comb \in {"repeat", "repeat_until_value"} =>
        /\ (SyncContinueStep /\ preempt) =>
                (lp_pc' = "queued" /\ lp_ret' = Fut("pending") /\ lp_depth' = 0)
        /\ lp_pc = "queued" =>
                (lp_calls' = lp_calls /\ lp_pc' \in {"queued", "loop"})

\* C15: repeat and repeat_until_value never hold more than one frame of the
\* loop on the stack; an already-ready "continue" while need_preempt()
\* answers "must yield" queues a task and hands a pending future to the
\* caller, action is not invoked while the task is queued, and the task
\* re-enters the loop.
C15_BoundedDepthAndYield ==
    /\ [](lp_comb \in {"repeat", "repeat_until_value"} => lp_depth <= 1)
    /\ [][RepeatYields]_vars

\* C15 witness: three already-ready "continue" steps in a row, with a yield
\* to the scheduler after the second and after the third.
C15_Witness ==
    /\ lp_comb = "repeat_until_value"
    /\ lp_log = <<"ready_continue", "ready_continue", "task", "ready_continue">>
    /\ lp_pc = "queued"
    /\ lp_ret = Fut("pending")

\* C16: as long as every invocation of action in repeat resolved with
\* "continue" (ready or later) the returned future is not resolved.
C16_ContinueForeverNeverResolves ==
    (/\ lp_comb = "repeat"
     /\ \A i \in 1..Len(lp_log) : lp_log[i] \in ContinueEntries \cup {"pending", "task"})
        => (~LpResolved /\ lp_pc # "done")

\* C16 witness: a ready step, a yield to the scheduler, a step that resolved
\* later and a third ready step under "must yield", all of them "continue".
C16_Witness ==
    /\ lp_comb = "repeat"
    /\ lp_log = <<"ready_continue", "task", "pending", "resolved_continue",
                  "ready_continue">>
    /\ preempt
    /\ lp_ret = Fut("pending")

\* C17: when the first invocation of action in repeat returns an already
\* ready "stop", repeat is done with a ready successful future after that one
\* invocation and no task was run; and an invocation that resolved with
\* "stop" is always the last thing that happens.
C17_StopIsFinal ==
    lp_comb = "repeat" =>
        /\ (Len(lp_log) >= 1 /\ lp_log[1] = "ready_stop") =>
                /\ lp_log = <<"ready_stop">>
                /\ lp_calls = 1
                /\ lp_pc = "done"
                /\ lp_ret = Fut("value")
        /\ \A i \in 1..Len(lp_log) :
                lp_log[i] \in StopEntries =>
                    (i = Len(lp_log) /\ lp_pc = "done" /\ lp_ret = Fut("value"))

\* C17 witness: the first invocation answered "stop" at once while
\* need_preempt() answered "must yield".
C17_Witness ==
    /\ lp_comb = "repeat"
    /\ lp_log = <<"ready_stop">>
    /\ preempt
    /\ lp_pc = "done"

\* C18: in do_until every invocation of action directly follows an
\* evaluation of stop_cond that was false, a true stop_cond is the last thing
\* that happens and resolves the result successfully, and a stop_cond that
\* is true at once leaves action uninvoked.
C18_StopCondBeforeEveryCall ==
    lp_comb = "do_until" =>
        /\ \A i \in 1..Len(lp_log) :
                lp_log[i] \in CallEntries => (i > 1 /\ lp_log[i - 1] = "cond_false")
        /\ \A i \in 1..Len(lp_log) :
                lp_log[i] = "cond_true" =>
                    (i = Len(lp_log) /\ lp_pc = "done" /\ lp_ret = Fut("value"))
        /\ (Len(lp_log) >= 1 /\ lp_log[1] = "cond_true") => lp_calls = 0

\* C18 witness: a ready step, then a step that resolved later, then
\* stop_cond true.
C18_Witness ==
    /\ lp_comb = "do_until"
    /\ lp_log = <<"cond_false", "ready_continue", "cond_false", "pending",
                  "resolved_continue", "cond_true">>
    /\ lp_ret = Fut("value")

\* The first entry of the log that is a failure.
FirstFailure(log) ==
    CHOOSE i \in 1..Len(log) :
        /\ log[i] \in FailureOutcomes
        /\ \A j \in 1..(i - 1) : log[j] \notin FailureOutcomes

\* C19: the future returned by keep_doing never holds a value, and when it
\* holds an exception it is the one of the first invocation that failed.
C19_KeepDoingOnlyFails ==
    lp_comb = "keep_doing" =>
        /\ lp_ret.st # "value"
        /\ lp_ret.st = "exception" =>
                /\ \E i \in 1..Len(lp_log) : lp_log[i] \in FailureOutcomes
                /\ lp_ret.ex = CallNo(lp_log, FirstFailure(lp_log))

\* C19 witness: two invocations went through, one of them across a yield,
\* and the third returned a future that failed later.
C19_Witness ==
    /\ lp_comb = "keep_doing"
    /\ lp_log = <<"ready_continue", "task", "ready_continue", "pending",
                  "resolved_failed">>
    /\ lp_ret = Failed(3)

\* C20: in repeat_until_value an invocation that yielded a value is the last
\* thing that happens and the result holds the value of that invocation; after
\* an invocation without a value the loop goes on (in the loop or as a queued
\* task) and the result is not resolved.
C20_FirstValueWins ==
    lp_comb = "repeat_until_value" =>
        /\ \A i \in 1..Len(lp_log) :
                lp_log[i] \in StopEntries =>
                    /\ i = Len(lp_log)
                    /\ lp_pc = "done"
                    /\ lp_ret = Fut("value")
                    /\ lp_val = CallNo(lp_log, i)
        /\ lp_ret.st = "value" =>
                (Len(lp_log) >= 1 /\ lp_log[Len(lp_log)] \in StopEntries)
        /\ (Len(lp_log) >= 1 /\ lp_log[Len(lp_log)] \in ContinueEntries) =>
                (lp_pc \in {"loop", "queued"} /\ ~LpResolved)

\* C20 witness: no value at once, a yield, no value from a future that
\* resolved later, then the value of the third invocation.
C20_Witness ==
    /\ lp_comb = "repeat_until_value"
    /\ lp_log = <<"ready_continue", "task", "pending", "resolved_continue",
                  "pending", "resolved_stop">>
    /\ lp_val = 3
    /\ lp_ret = Fut("value")

(***************************************************************************)
(* map_reduce                                                              *)
(*                                                                         *)
(* Element i owns the mapper future mr_map[i] and the future mr.ret[i]     *)
(* that the i-th assignment to `ret` produces; ret before the loop is a    *)
(* ready future.  mr.link[i] tells how far the continuations of element i  *)
(* got: "none", waiting for the previous ret ("attached" through a         *)
(* then_wrapped, "forward" when the previous ret itself was returned), or  *)
(* "ran".  Values are element indices, the reduce function appends to the  *)
(* accumulator, so that the accumulator records the order of the folds.    *)
(***************************************************************************)

Ready(f) == f.st \in {"value", "exception"}

\* ret as it was when element i was launched: element i-1's, or the initial
\* make_ready_future<>().
RetOf(s, i) == IF i = 0 THEN MrFut("value", NoEx, <<>>) ELSE s.ret[i]

MapOk(m) == m \in {"ready_val", "resolved_val"}

MapFailed(m) == m \in {"thrown", "ready_failed", "resolved_failed"}

\* The mapper or the fold step of element i has failed.
StepFailed(s, map, i) == MapFailed(map[i]) \/ s.cons[i] = "failed"

\* {j} when the fold of element j is invoked after an earlier element failed.
LateAt(s, map, j) ==
    IF \E i \in 1..(j - 1) : StepFailed(s, map, i) THEN {j} ELSE {}

\* Reducer overload, the inner lambda (auto rf): runs once the mapper future
\* f of element i and the previous ret are ready; co is what the reducer's
\* operator() does when it is invoked.
ReducerInner(s, map, i, co) ==
    LET rf == RetOf(s, i - 1) IN
    IF rf.st = "exception"
    THEN [s EXCEPT !.ret[i] = rf, !.link[i] = "ran"]
    ELSE IF ~MapOk(map[i])
    THEN [s EXCEPT !.ret[i] = MrFut("exception", i, <<>>), !.link[i] = "ran"]
    ELSE LET s1 == [s EXCEPT !.link[i] = "ran",
                             !.folds = Append(@, i),
                             !.late = @ \cup LateAt(s, map, i)]
         IN  CASE co \in {"throw", "ready_failed"} ->
                    [s1 EXCEPT !.cons[i] = "failed",
                               !.ret[i] = MrFut("exception", i, <<>>)]
               [] co = "ready_ok" ->
                    [s1 EXCEPT !.cons[i] = "ok",
                               !.acc = Append(@, i),
                               !.ret[i] = MrFut("value", NoEx, <<>>)]
               [] co = "pending" ->
                    [s1 EXCEPT !.cons[i] = "pending"]

ReducerOuter_Unchained(s, map, i, co) == ReducerInner(s, map, i, co)

\* Reducer overload, the outer lambda (auto f): runs when the mapper future
\* is ready and chains the inner lambda to the previous ret.
ReducerOuter(s, map, i, co) ==
    IF Ready(RetOf(s, i - 1))
    THEN ReducerInner(s, map, i, co)
    ELSE [s EXCEPT !.link[i] = "attached"]

InitialOuter_FailFast(s, map, i, rt, mv) ==
    IF MapOk(map[i]) /\ ~rt
    THEN LET s1 == [s EXCEPT !.acc = Append(@, i),
                             !.folds = Append(@, i),
                             !.cons[i] = "ok",
                             !.late = @ \cup LateAt(s, map, i)]
         IN  IF Ready(RetOf(s, i - 1))
             THEN [s1 EXCEPT !.ret[i] = RetOf(s, i - 1), !.link[i] = "ran"]
             ELSE [s1 EXCEPT !.link[i] = "forward"]
    ELSE [s EXCEPT !.ret[i] = MrFut("exception", i, <<>>), !.link[i] = "ran"]

\* Initial/Reduce overload, the lambda (auto f): runs when the mapper future
\* is ready, whatever the state of the previous ret.  On success it folds at
\* once and returns the previous ret; when f.get0() or reduce throws (rt), it
\* chains a continuation to the previous ret that fails with the exception.
\* mv is what a throwing reduce left in s->result.
InitialOuter(s, map, i, rt, mv) ==
    IF MapOk(map[i]) /\ ~rt
    THEN LET s1 == [s EXCEPT !.acc = Append(@, i),
                             !.folds = Append(@, i),
                             !.cons[i] = "ok",
                             !.late = @ \cup LateAt(s, map, i)]
         IN  IF Ready(RetOf(s, i - 1))
             THEN [s1 EXCEPT !.ret[i] = RetOf(s, i - 1), !.link[i] = "ran"]
             ELSE [s1 EXCEPT !.link[i] = "forward"]
    ELSE LET s1 == IF MapOk(map[i])
                   THEN [s EXCEPT !.acc = mv,
                                  !.folds = Append(@, i),
                                  !.cons[i] = "failed",
                                  !.late = @ \cup LateAt(s, map, i)]
                   ELSE s
         IN  IF Ready(RetOf(s, i - 1))
             THEN [s1 EXCEPT !.ret[i] = MrFut("exception", i, <<>>), !.link[i] = "ran"]
             ELSE [s1 EXCEPT !.link[i] = "attached"]

\* Initial/Reduce overload: the previous ret has become ready.
InitialInner(s, i) ==
    IF s.link[i] = "forward"
    THEN [s EXCEPT !.ret[i] = RetOf(s, i - 1), !.link[i] = "ran"]
    ELSE [s EXCEPT !.ret[i] = MrFut("exception", i, <<>>), !.link[i] = "ran"]

\* What the fold step of an element can do when it is invoked.
FoldOutcomes == {"throw", "ready_ok", "ready_failed", "pending"}

\* The continuation on the mapper future of element i runs.
MapperDone(ov, s, map, i, next) ==
    IF ov = "reducer"
    THEN \E co \in FoldOutcomes : next = ReducerOuter(s, map, i, co)
    ELSE \E rt \in BOOLEAN : \E mv \in {s.acc, <<>>} :
            next = InitialOuter(s, map, i, rt, mv)

MrScanDone_StopOnFailure(begin, n, map) ==
    begin >= n \/ \E i \in 1..begin : MapFailed(map[i])

\* while (begin != end): the loop over the range ends at its end only; no
\* throw of mapper leaves it, futurator::apply turns it into a failed future.
MrScanDone(begin, n, map) == begin >= n

\* maybe_call_get / the final ret.then: the accumulated value on success.
Final(r, acc) == IF r.st = "value" THEN MrFut("value", NoEx, acc) ELSE r

MrInit ==
    /\ NotMrIdle
    /\ mr_overload \in {"reducer", "initial"}
    /\ mr_n \in 0..MaxRange
    /\ mr_pc = "idle"
    /\ mr_begin = 0
    /\ mr_map = [i \in Range(MaxRange) |-> "none"]
    /\ mr = NewChain
    /\ mr_ret = MrFut("none", NoEx, <<>>)

\* Entry of map_reduce: the shared state and the ready ret are set up.
MrCall ==
    /\ mr_pc = "idle"
    /\ mr_pc' = "scan"
    /\ UNCHANGED <<mr_overload, mr_n, mr_begin, mr_map, mr, mr_ret, notMr>>

\* One iteration of while (begin != end): futurator::apply(mapper, *begin++)
\* (a throw becomes a failed future) and then_wrapped on its future.
MrLaunch ==
    /\ mr_pc = "scan"
    /\ ~MrScanDone(mr_begin, mr_n, mr_map)
    /\ \E mo \in {"thrown", "ready_val", "ready_failed", "pending"} :
        LET i   == mr_begin + 1
            map == [mr_map EXCEPT ![i] = mo]
        IN  /\ mr_begin' = i
            /\ mr_map' = map
            /\ IF mo = "pending"
               THEN mr' = mr
               ELSE MapperDone(mr_overload, mr, map, i, mr')
    /\ UNCHANGED <<mr_overload, mr_n, mr_pc, mr_ret, notMr>>

\* begin == end: the final continuation is chained to ret and its future is
\* returned.
MrReturn ==
    /\ mr_pc = "scan"
    /\ MrScanDone(mr_begin, mr_n, mr_map)
    /\ mr_pc' = "returned"
    /\ mr_ret' = IF Ready(RetOf(mr, mr_n))
                 THEN Final(RetOf(mr, mr_n), mr.acc)
                 ELSE MrFut("pending", NoEx, <<>>)
    /\ UNCHANGED <<mr_overload, mr_n, mr_begin, mr_map, mr, notMr>>

\* The pending mapper future of element i resolves.
MrMapperResolve(i) ==
    /\ mr_pc = "returned"
    /\ mr_map[i] = "pending"
    /\ \E mo \in {"resolved_val", "resolved_failed"} :
        LET map == [mr_map EXCEPT ![i] = mo]
        IN  /\ mr_map' = map
            /\ MapperDone(mr_overload, mr, map, i, mr')
    /\ UNCHANGED <<mr_overload, mr_n, mr_pc, mr_begin, mr_ret, notMr>>

\* The previous ret is ready: the continuation element i chained to it runs.
MrInner(i) ==
    /\ mr_pc = "returned"
    /\ mr.link[i] \in {"attached", "forward"}
    /\ Ready(RetOf(mr, i - 1))
    /\ IF mr_overload = "reducer"
       THEN \E co \in FoldOutcomes : mr' = ReducerInner(mr, mr_map, i, co)
       ELSE mr' = InitialInner(mr, i)
    /\ UNCHANGED <<mr_overload, mr_n, mr_pc, mr_begin, mr_map, mr_ret, notMr>>

\* The pending future returned by the reducer for element i resolves.
MrConsumeResolve(i) ==
    /\ mr_pc = "returned"
    /\ mr.cons[i] = "pending"
    /\ \E ok \in BOOLEAN :
        mr' = IF ok
              THEN [mr EXCEPT !.cons[i] = "ok",
                              !.acc = Append(@, i),
                              !.ret[i] = MrFut("value", NoEx, <<>>)]
              ELSE [mr EXCEPT !.cons[i] = "failed",
                              !.ret[i] = MrFut("exception", i, <<>>)]
    /\ UNCHANGED <<mr_overload, mr_n, mr_pc, mr_begin, mr_map, mr_ret, notMr>>

\* The last ret is ready: the final continuation resolves the result.
MrFinish ==
    /\ mr_pc = "returned"
    /\ mr_ret.st = "pending"
    /\ Ready(RetOf(mr, mr_n))
    /\ mr_ret' = Final(RetOf(mr, mr_n), mr.acc)
    /\ UNCHANGED <<mr_overload, mr_n, mr_pc, mr_begin, mr_map, mr, notMr>>

MrNext ==
    \/ MrCall
    \/ MrLaunch
    \/ MrReturn
    \/ \E i \in Range(MaxRange) : MrMapperResolve(i)
    \/ \E i \in Range(MaxRange) : MrInner(i)
    \/ \E i \in Range(MaxRange) : MrConsumeResolve(i)
    \/ MrFinish

SpecMR == MrInit /\ [][MrNext]_vars

(***************************************************************************)
(* map_reduce: properties                                                  *)
(***************************************************************************)

\* The elements whose mapper or fold step has failed.
FailedSteps == {i \in Range(mr_n) : StepFailed(mr, mr_map, i)}

Least(S) == CHOOSE x \in S : \A y \in S : x <= y

\* C1: in the initial-value overload reduce is applied to the mapper results
\* in input order, so a successful result is the left-to-right fold of all
\* of them, whatever the order in which the mapper futures complete.
C1_FoldsInInputOrder ==
    mr_overload = "initial" =>
        /\ \A a, b \in 1..Len(mr.folds) : a < b => mr.folds[a] < mr.folds[b]
        /\ (mr_ret.st = "value" => mr_ret.val = Iota(mr_n))

\* C2: in both overloads, when a mapper or a fold step fails, the result
\* fails with one exception, that of the first failure, and no fold step is
\* invoked for a later element once an earlier one has failed.
C2_FirstFailureShortCircuits ==
    /\ mr.late = {}
    /\ (mr_ret.st = "exception" =>
            (FailedSteps # {} /\ mr_ret.ex = Least(FailedSteps)))
    /\ ((Ready(mr_ret) /\ FailedSteps # {}) => mr_ret.st = "exception")


\* A step that invokes the mapper does so inside the call, on the element
\* after the last one it was invoked on.
MrLaunchedInCall ==
    \A i \in Range(MaxRange) :
        (mr_map[i] = "none" /\ mr_map'[i] # "none") =>
            (mr_pc = "scan" /\ i = mr_begin + 1 /\ mr_begin' = i)

\* The mapper was invoked on exactly the first mr_begin elements, and on all
\* of the range when the call has returned.
MrLaunchedPrefix ==
    /\ \A i \in Range(MaxRange) : (mr_map[i] # "none") <=> (i <= mr_begin)
    /\ mr_pc = "returned" => mr_begin = mr_n

\* C21: in both overloads of map_reduce the mapper is invoked on every
\* element of the range, in input order, before the call returns, whether
\* the mappers of earlier elements are still pending, have thrown or have
\* failed.
C21_AllMappersLaunchedInCall ==
    /\ []MrLaunchedPrefix
    /\ [][MrLaunchedInCall]_vars

\* C21 witness: the call has returned with the mapper of element 1 having
\* thrown, the one of element 2 still pending and the one of element 3
\* having returned a failed future.
C21_Witness ==
    /\ mr_pc = "returned"
    /\ mr_n = 3
    /\ mr_map = <<"thrown", "pending", "ready_failed">>

\* C23, with the failure clause read in input order: in the overload with a
\* reducer object, the reducer is invoked at most once per element and in
\* input order, only after the future of every earlier invocation has
\* resolved successfully, never for an element that comes after one whose
\* mapper or invocation failed, and a failed result holds the exception of
\* the failing step of the lowest index.
C23_ConsumeSerialized ==
    mr_overload = "reducer" =>
        /\ \A a, b \in 1..Len(mr.folds) : a < b => mr.folds[a] < mr.folds[b]
        /\ \A a \in 1..Len(mr.folds) :
                \A j \in 1..(mr.folds[a] - 1) : mr.cons[j] = "ok" /\ MapOk(mr_map[j])
        /\ mr.late = {}
        /\ mr_ret.st = "exception" =>
                (FailedSteps # {} /\ mr_ret.ex = Least(FailedSteps))

\* Once the mapper or the reducer has failed for some element, whichever
\* it is, no step invokes the reducer.
MrNoConsumeAfterFailure ==
    (mr_overload = "reducer" /\ FailedSteps # {}) => mr.folds' = mr.folds

\* C23 as stated: the reducer is invoked at most once per element, in input
\* order and serialized, a failed result holds the exception of the failing
\* step of the lowest index, and after any failure of a mapper or of the
\* reducer, of whichever element, the reducer is never invoked again.
C23_NoConsumeAfterAnyFailure ==
    /\ []C23_ConsumeSerialized
    /\ [][MrNoConsumeAfterFailure]_vars

\* C23 witness: the mapper of element 3 resolved while the future of the
\* reducer for element 2 is pending; the reducer was invoked for 1 and 2 only.
C23_Witness ==
    /\ mr_overload = "reducer"
    /\ mr.folds = <<1, 2>>
    /\ mr.cons[2] = "pending"
    /\ mr_map[3] = "resolved_val"
    /\ mr.link[3] = "attached"

\* Nothing launched by the call is in flight: no mapper future or reducer
\* future is pending and no continuation waits for a previous ret.
MrDrained ==
    \A i \in Range(mr_n) :
        /\ mr_map[i] # "pending"
        /\ mr.cons[i] # "pending"
        /\ mr.link[i] = "ran"

\* Once the result is resolved the accumulator is left alone.
MrQuietAfterResolve == Ready(mr_ret) => (mr' = mr /\ mr_map' = mr_map)

\* C24: in both overloads the returned future is resolved, with a value or
\* with an exception, only when every mapper future of the call has resolved
\* and every continuation has run; afterwards the shared state is not
\* touched.
C24_ResolvesAfterDrain ==
    /\ [](Ready(mr_ret) => (mr_pc = "returned" /\ MrDrained))
    /\ [][MrQuietAfterResolve]_vars

\* C24 witness: the mapper of element 1 had failed at once, the mappers of
\* elements 2 and 3 resolved later, and then the result failed.
C24_Witness ==
    /\ mr_overload = "initial"
    /\ mr_map = <<"ready_failed", "resolved_failed", "resolved_val">>
    /\ mr_ret.st = "exception"

(***************************************************************************)
(* when_all                                                                *)
(*                                                                         *)
(* Input i is a future whose promise is held by the caller; wa_in[i] is    *)
(* what that promise holds.  A slot records the state of the future now    *)
(* stored at that place of the tuple / vector and the input whose outcome  *)
(* it carries.                                                             *)
(***************************************************************************)

\* future::available()
Avail(f) == f.st \in {"value", "exception"}

\* The future returned by when_all while nothing was put into it.
PendingRet == [st |-> "pending", val |-> <<>>]

Aggregate_FailFast(slots, n) ==
    IF \E i \in Range(n) : slots[i].st = "exception"
    THEN [st |-> "exception", val |-> <<>>]
    ELSE [st |-> "value", val |-> SubSeq(slots, 1, n)]

\* p.set_value(std::move(tuple)) and
\* make_ready_future<std::vector<Future>>(std::move(futures)): the result
\* is a value, the container of the futures as they are.
Aggregate(slots, n) == [st |-> "value", val |-> SubSeq(slots, 1, n)]

LastOwner_Eager(refs) == TRUE

\* lw_shared_ptr destroys the when_all_state when its last holder lets go.
LastOwner(refs) == refs = {}

\* The while loop of complete_when_all: pos after skipping ready futures.
RECURSIVE SkipReady(_, _, _)
SkipReady(slots, pos, n) ==
    IF pos <= n /\ Avail(slots[pos]) THEN SkipReady(slots, pos + 1, n) ELSE pos

\* complete_when_all(futures, pos): skip the ready futures; at the end make
\* the ready result, otherwise attach a continuation to *pos, whose state
\* then_wrapped takes out of the vector.
CompleteWhenAll(slots, pos, n, sets) ==
    LET p == SkipReady(slots, pos, n) IN
    IF p > n
    THEN [pos |-> p, slots |-> slots, cont |-> {},
          ret |-> Aggregate(slots, n), sets |-> sets + 1]
    ELSE [pos |-> p, slots |-> [slots EXCEPT ![p].st = "detached"], cont |-> {p},
          ret |-> PendingRet, sets |-> sets]

WaInit ==
    /\ NotWaIdle
    /\ wa_form \in {"tuple", "range"}
    /\ wa_n \in 0..MaxFutures
    /\ wa_pc = "idle"
    /\ wa_in \in [Range(MaxFutures) -> {"none", "pending", "value", "exception"}]
    /\ \A i \in Range(MaxFutures) : (wa_in[i] = "none") <=> (i > wa_n)
    /\ wa_slot = [i \in Range(MaxFutures) |-> Slot("none", 0)]
    /\ wa_visited = {}
    /\ wa_refs = {}
    /\ wa_pos = 0
    /\ wa_cont = {}
    /\ wa_queue = <<>>
    /\ wa_order = <<>>
    /\ wa_ret = NoRet
    /\ wa_sets = 0

\* The caller calls when_all: the futures are moved into the tuple of a new
\* when_all_state held by the local s, or into the vector ret.
WaCall ==
    /\ wa_pc = "idle"
    /\ wa_pc' = "wait"
    /\ wa_slot' = [i \in Range(MaxFutures) |->
                      IF i <= wa_n THEN Slot(wa_in[i], i) ELSE Slot("none", 0)]
    /\ wa_refs' = IF wa_form = "tuple" THEN {0} ELSE {}
    /\ wa_pos' = IF wa_form = "range" THEN 1 ELSE 0
    /\ UNCHANGED <<wa_form, wa_n, wa_in, wa_visited, wa_cont, wa_queue, wa_order,
                   wa_ret, wa_sets, notWa>>

\* wait<Idx>() of wait_all, the Idx taken in any order: a future that is not
\* available is replaced by the future of a continuation that holds a
\* reference to the state and hands on the future it is given.
WaWait(i) ==
    /\ wa_form = "tuple"
    /\ wa_pc = "wait"
    /\ i \in Range(wa_n) \ wa_visited
    /\ wa_visited' = wa_visited \cup {i}
    /\ IF ~Avail(wa_slot[i])
       THEN /\ wa_slot' = [wa_slot EXCEPT ![i].st = "chained"]
            /\ wa_refs' = wa_refs \cup {i}
            /\ wa_cont' = wa_cont \cup {i}
       ELSE UNCHANGED <<wa_slot, wa_refs, wa_cont>>
    /\ UNCHANGED <<wa_form, wa_n, wa_pc, wa_in, wa_pos, wa_queue, wa_order,
                   wa_ret, wa_sets, notWa>>

\* wait_all returns p.get_future() and when_all returns: the local s lets go
\* of the state, which is destroyed now if no continuation holds it.
WaReturn ==
    /\ wa_form = "tuple"
    /\ wa_pc = "wait"
    /\ wa_visited = Range(wa_n)
    /\ LET refs == wa_refs \ {0} IN
        /\ wa_refs' = refs
        /\ wa_ret' = IF LastOwner(refs) THEN Aggregate(wa_slot, wa_n) ELSE PendingRet
        /\ wa_sets' = IF LastOwner(refs) THEN wa_sets + 1 ELSE wa_sets
    /\ wa_pc' = "returned"
    /\ UNCHANGED <<wa_form, wa_n, wa_in, wa_slot, wa_visited, wa_pos, wa_cont,
                   wa_queue, wa_order, notWa>>

\* when_all(begin, end) calls complete_when_all(std::move(ret), ret.begin())
\* and returns its future.
WrComplete ==
    /\ wa_form = "range"
    /\ wa_pc = "wait"
    /\ LET r == CompleteWhenAll(wa_slot, wa_pos, wa_n, wa_sets) IN
        /\ wa_pos' = r.pos
        /\ wa_slot' = r.slots
        /\ wa_cont' = r.cont
        /\ wa_ret' = r.ret
        /\ wa_sets' = r.sets
    /\ wa_pc' = "returned"
    /\ UNCHANGED <<wa_form, wa_n, wa_in, wa_visited, wa_refs, wa_queue, wa_order,
                   notWa>>

\* The caller resolves the promise of input i.  With a continuation attached
\* the continuation is scheduled with the outcome; otherwise the outcome
\* lands in the future, where it lies in the vector.
WaInputResolve(i) ==
    /\ wa_pc = "returned"
    /\ i \in Range(wa_n)
    /\ wa_in[i] = "pending"
    /\ \E o \in {"value", "exception"} :
        /\ wa_in' = [wa_in EXCEPT ![i] = o]
        /\ IF i \in wa_cont
           THEN /\ wa_queue' = Append(wa_queue, [target |-> i, fut |-> Slot(o, i)])
                /\ wa_cont' = wa_cont \ {i}
                /\ UNCHANGED wa_slot
           ELSE /\ wa_slot' = [wa_slot EXCEPT ![i].st = o]
                /\ UNCHANGED <<wa_queue, wa_cont>>
    /\ wa_order' = Append(wa_order, i)
    /\ UNCHANGED <<wa_form, wa_n, wa_pc, wa_visited, wa_refs, wa_pos, wa_ret,
                   wa_sets, notWa>>

\* The reactor runs a continuation of wait<Idx>(): the future it returns is
\* forwarded into the slot; then the task is destroyed and lets go of the
\* state, whose destructor sets p when this was the last holder.
WaForward ==
    /\ wa_form = "tuple"
    /\ wa_queue # <<>>
    /\ LET c == Head(wa_queue)
           slots == [wa_slot EXCEPT ![c.target] = c.fut]
           refs == wa_refs \ {c.target}
       IN  /\ wa_slot' = slots
           /\ wa_refs' = refs
           /\ wa_ret' = IF LastOwner(refs) THEN Aggregate(slots, wa_n) ELSE wa_ret
           /\ wa_sets' = IF LastOwner(refs) THEN wa_sets + 1 ELSE wa_sets
    /\ wa_queue' = Tail(wa_queue)
    /\ UNCHANGED <<wa_form, wa_n, wa_pc, wa_in, wa_visited, wa_pos, wa_cont,
                   wa_order, notWa>>

\* The reactor runs the continuation of complete_when_all:
\* *pos++ = std::move(fut); return complete_when_all(std::move(futures), pos).
WrStore ==
    /\ wa_form = "range"
    /\ wa_queue # <<>>
    /\ LET c == Head(wa_queue)
           r == CompleteWhenAll([wa_slot EXCEPT ![wa_pos] = c.fut], wa_pos + 1,
                                wa_n, wa_sets)
       IN  /\ wa_pos' = r.pos
           /\ wa_slot' = r.slots
           /\ wa_cont' = r.cont
           /\ wa_ret' = r.ret
           /\ wa_sets' = r.sets
    /\ wa_queue' = Tail(wa_queue)
    /\ UNCHANGED <<wa_form, wa_n, wa_pc, wa_in, wa_visited, wa_refs, wa_order,
                   notWa>>

WaNext ==
    \/ WaCall
    \/ \E i \in Range(MaxFutures) : WaWait(i)
    \/ WaReturn
    \/ WrComplete
    \/ \E i \in Range(MaxFutures) : WaInputResolve(i)
    \/ WaForward
    \/ WrStore

SpecWA == WaInit /\ [][WaNext]_vars


(***************************************************************************)
(* when_all: properties                                                    *)
(***************************************************************************)

\* The future returned by when_all is resolved.
WaResolved == wa_ret.st \in {"value", "exception"}

\* C11: in both forms the future returned by when_all never holds an
\* exception, and when it is resolved its i-th element is the completed
\* future of input i, with the value or exception that input got, whatever
\* the order in which the inputs completed.
C11_NeverFailsInInputOrder ==
    /\ wa_ret.st # "exception"
    /\ wa_ret.st = "value" =>
        /\ Len(wa_ret.val) = wa_n
        /\ \A i \in Range(wa_n) :
            /\ wa_in[i] \in {"value", "exception"}
            /\ wa_ret.val[i] = Slot(wa_in[i], i)

\* C11 witness: the range form with three pending inputs that completed in
\* the order 3, 1, 2, the first and the third with an exception.
C11_Witness ==
    /\ wa_form = "range"
    /\ wa_n = 3
    /\ wa_order = <<3, 1, 2>>
    /\ wa_in = <<"exception", "value", "exception">>
    /\ wa_ret.st = "value"

\* Every future inside the resolved result is ready.
WaAllReadyWhenResolved ==
    WaResolved => \A i \in 1..Len(wa_ret.val) : Avail(wa_ret.val[i])

\* Tuple form: the state is gone when the result is resolved, and a call
\* whose inputs were all ready has its result when it returns.
WaResolvedAtTeardown ==
    wa_form = "tuple" =>
        /\ WaResolved => (wa_refs = {} /\ wa_pc = "returned")
        /\ (/\ wa_pc = "returned"
            /\ wa_order = <<>>
            /\ \A i \in Range(wa_n) : wa_in[i] # "pending") => WaResolved

\* A step that resolves the result is, in the tuple form, the step in which
\* the last holder lets go of the state; a resolved result is never touched.
WaSetOnLastRelease ==
    /\ (wa_form = "tuple" /\ wa_sets' # wa_sets) => (wa_refs # {} /\ wa_refs' = {})
    /\ WaResolved => wa_ret' = wa_ret

\* C12: the future returned by when_all is given its result once, every
\* future in that result is ready, and in the tuple form the result is set
\* in the step in which the last holder of the state (the last continuation,
\* or the call itself when every input was ready) lets go of it.
C12_ResolvedOnceWhenAllReady ==
    /\ [](wa_sets <= 1)
    /\ []WaAllReadyWhenResolved
    /\ []WaResolvedAtTeardown
    /\ [][WaSetOnLastRelease]_vars

\* C12 witness: the tuple form with inputs 1 and 3 pending and input 2
\* ready; 3 completed before 1 and the continuation of 1 was the last holder.
C12_Witness ==
    /\ wa_form = "tuple"
    /\ wa_n = 3
    /\ wa_order = <<3, 1>>
    /\ wa_visited = {1, 2, 3}
    /\ wa_refs = {}
    /\ wa_sets = 1
    /\ wa_ret.st = "value"


(***************************************************************************)
(* with_timeout                                                            *)
(*                                                                         *)
(* The timer and the continuation of f are run by the reactor, one at a    *)
(* time, after with_timeout has returned.                                  *)
(***************************************************************************)

\* The exception a failed f carries.
FEx == 1

\* timed_out_error, made by default_timeout_exception_factory.
TimedOutError == 2

\* The exception made by an ExceptionFactory of the caller.
CustomTimeout == 3

\* ExceptionFactory::timeout()
Timeout(factory) == IF factory = "default" THEN TimedOutError ELSE CustomTimeout

ReturnsAtOnce_Never(f) == FALSE

\* if (f.available()) { return f; }
ReturnsAtOnce(f) == Avail(f)

\* timer.cancel(): true iff the timer was armed and has not fired.
Cancel(timer) == timer = "armed"

OnResolved_AlwaysForward(cancelled, f, ret, sets) == [ret |-> f, sets |-> sets + 1]

\* The body of the continuation: f.forward_to(std::move(*pr)) when cancel()
\* said true, f.ignore_ready_future() otherwise.
OnResolved(cancelled, f, ret, sets) ==
    IF cancelled THEN [ret |-> f, sets |-> sets + 1] ELSE [ret |-> ret, sets |-> sets]

WtInit ==
    /\ NotWtIdle
    /\ wt_factory \in {"default", "custom"}
    /\ wt_deadline \in 0..MaxDeadline
    /\ wt_now = 0
    /\ wt_pc = "idle"
    /\ wt_f \in {Fut("pending"), Fut("value"), Failed(FEx)}
    /\ wt_late = Fut("none")
    /\ wt_ready_at = NoTime
    /\ wt_timer = "none"
    /\ wt_cont = "none"
    /\ wt_ret = Fut("none")
    /\ wt_sets = 0

\* The clock advances.
WtTick ==
    /\ wt_now <= MaxDeadline
    /\ wt_now' = wt_now + 1
    /\ UNCHANGED <<wt_factory, wt_deadline, wt_pc, wt_f, wt_late, wt_ready_at,
                   wt_timer, wt_cont, wt_ret, wt_sets, notWt>>

\* The caller calls with_timeout(timeout, f).
WtCall ==
    /\ wt_pc = "idle"
    /\ wt_pc' = "returned"
    /\ IF ReturnsAtOnce(wt_f)
       THEN /\ wt_ret' = wt_f
            /\ UNCHANGED <<wt_timer, wt_cont>>
       ELSE /\ wt_ret' = Fut("pending")
            /\ wt_timer' = "armed"
            /\ wt_cont' = "attached"
    /\ UNCHANGED <<wt_factory, wt_deadline, wt_now, wt_f, wt_late, wt_ready_at,
                   wt_sets, notWt>>

\* The deadline is reached and the reactor runs the callback of the timer:
\* pr.set_exception(std::make_exception_ptr(ExceptionFactory::timeout())).
WtTimerFire ==
    /\ wt_timer = "armed"
    /\ wt_now >= wt_deadline
    /\ wt_timer' = "fired"
    /\ wt_ret' = Failed(Timeout(wt_factory))
    /\ wt_sets' = wt_sets + 1
    /\ UNCHANGED <<wt_factory, wt_deadline, wt_now, wt_pc, wt_f, wt_late, wt_ready_at,
                   wt_cont, notWt>>

\* The promise of f is resolved; the continuation is scheduled.
WtFResolve ==
    /\ wt_cont = "attached"
    /\ wt_late' \in {Fut("value"), Failed(FEx)}
    /\ wt_ready_at' = wt_now
    /\ wt_cont' = "queued"
    /\ UNCHANGED <<wt_factory, wt_deadline, wt_now, wt_pc, wt_f, wt_timer, wt_ret,
                   wt_sets, notWt>>

\* The reactor runs the continuation attached to f.
WtContinuation ==
    /\ wt_cont = "queued"
    /\ wt_cont' = "done"
    /\ wt_timer' = IF Cancel(wt_timer) THEN "cancelled" ELSE wt_timer
    /\ LET r == OnResolved(Cancel(wt_timer), wt_late, wt_ret, wt_sets) IN
        /\ wt_ret' = r.ret
        /\ wt_sets' = r.sets
    /\ UNCHANGED <<wt_factory, wt_deadline, wt_now, wt_pc, wt_f, wt_late, wt_ready_at,
                   notWt>>

WtNext ==
    \/ WtTick
    \/ WtCall
    \/ WtTimerFire
    \/ WtFResolve
    \/ WtContinuation

SpecWT == WtInit /\ [][WtNext]_vars

(***************************************************************************)
(* with_timeout: properties                                                *)
(***************************************************************************)

\* A resolved result is never touched again.
WtResultIsFinal == Avail(wt_ret) => wt_ret' = wt_ret

\* C13: with f not ready at the call, once the timer has fired the result
\* holds the timeout exception and keeps it when f resolves later, with a
\* value or an exception; and whichever of the timer and the continuation of
\* f comes first, the promise of the result is set at most once.
C13_TimeoutWinsOnce ==
    /\ [](wt_timer = "fired" => wt_ret = Failed(Timeout(wt_factory)))
    /\ [](wt_sets <= 1)
    /\ []((wt_timer = "fired" \/ wt_cont = "done") => wt_sets = 1)
    /\ [][WtResultIsFinal]_vars

\* C13 witness: the timer fired, f resolved with a value afterwards, its
\* continuation ran, and the result still holds the timeout exception.
C13_Witness ==
    /\ wt_timer = "fired"
    /\ wt_late = Fut("value")
    /\ wt_cont = "done"
    /\ wt_ret = Failed(CustomTimeout)
    /\ wt_sets = 1

\* C14: a call with a ready f returns f as it is, and no timer is armed for
\* it, so that the result never becomes the timeout exception.
C14_ReadyReturnedUnchanged ==
    (wt_pc = "returned" /\ Avail(wt_f)) =>
        /\ wt_ret = wt_f
        /\ wt_timer = "none"
        /\ wt_cont = "none"
        /\ wt_sets = 0

\* C14 witness: f had failed before the call and the deadline has passed.
C14_Witness ==
    /\ wt_pc = "returned"
    /\ wt_f = Failed(FEx)
    /\ wt_now > wt_deadline
    /\ wt_ret = Failed(FEx)


\* f resolved at a time before the deadline.
WtReadyBeforeDeadline == wt_ready_at # NoTime /\ wt_ready_at < wt_deadline

\* C22: when f, not ready at the call, resolves before the timeout is
\* reached, the result is never the timeout exception, and once the
\* continuation of f has run, however late, the result is the outcome of f.
C22_ReadyBeforeTimeoutWins ==
    WtReadyBeforeDeadline =>
        /\ wt_ret # Failed(Timeout(wt_factory))
        /\ wt_cont = "done" => wt_ret = wt_late


(***************************************************************************)
(* Two calls of repeat with the same action                                *)
(*                                                                         *)
(* rp_script fixes what every invocation of action does: its result and    *)
(* whether the future is ready at once or resolves later.  Each call of    *)
(* repeat gets its own answers from need_preempt().  The calls do not      *)
(* share state, so the second is followed once the first has come to rest. *)
(***************************************************************************)

Behaviours ==
    {"throw", "ready_continue", "ready_failed", "ready_stop",
     "late_continue", "late_failed", "late_stop"}

\* What invocation of action with behaviour b returns.
CallOutcomeOf(b) ==
    IF b \in {"late_continue", "late_failed", "late_stop"} THEN "pending" ELSE b

\* What the pending future of an invocation with behaviour b resolves to.
LateOutcomeOf(b) ==
    CASE b = "late_continue" -> "resolved_continue"
      [] b = "late_failed" -> "resolved_failed"
      [] b = "late_stop" -> "resolved_stop"

\* One pass through the do-while of repeat in run: invocation k of action
\* does what the script says, np is the answer of need_preempt().
RunIter(run, script, np) ==
    LET k == run.calls + 1
        o == CallOutcomeOf(script[k])
        r == RepeatOutcome(o, np, k, run.ret)
    IN  [run EXCEPT !.pc = r.pc, !.calls = k, !.ret = r.ret, !.log = Append(@, o)]

\* The f.then continuation of repeat in run: the pending future resolved.
RunResolve(run, script, np) ==
    LET o == LateOutcomeOf(script[run.calls])
        r == RepeatOutcome(o, np, run.calls, run.ret)
    IN  [run EXCEPT !.pc = r.pc, !.ret = r.ret, !.log = Append(@, o)]

TaskResume_SkipsCall(run) ==
    [run EXCEPT !.pc = "loop", !.yields = @ + 1, !.calls = @ + 1]

\* The task scheduled by repeat: repeat(std::forward<AsyncAction>(action))
\* is called again with the same action, and its future is forwarded.
TaskResume(run) == [run EXCEPT !.pc = "loop", !.yields = @ + 1]

\* The call is done, or as many invocations as are followed have been made.
AtRest(run) == run.pc = "done" \/ (run.pc = "loop" /\ run.calls >= MaxCalls)

\* The second call is followed when the first is at rest.
Turn(r) == r = 1 \/ AtRest(rp_run[1])

RpInit ==
    /\ NotRpIdle
    /\ rp_script \in [Range(MaxCalls) -> Behaviours]
    /\ rp_run = <<NewRun, NewRun>>

\* The caller calls repeat(action).
RpCall(r) ==
    /\ Turn(r)
    /\ rp_run[r].pc = "idle"
    /\ rp_run' = [rp_run EXCEPT ![r].pc = "loop"]
    /\ UNCHANGED <<rp_script, notRp>>

\* One iteration of the do-while, with either answer of need_preempt().
RpIter(r) ==
    /\ Turn(r)
    /\ rp_run[r].pc = "loop"
    /\ rp_run[r].calls < MaxCalls
    /\ \E np \in BOOLEAN :
        rp_run' = [rp_run EXCEPT ![r] = RunIter(rp_run[r], rp_script, np)]
    /\ UNCHANGED <<rp_script, notRp>>

\* The pending future of the latest invocation resolves.
RpResolve(r) ==
    /\ Turn(r)
    /\ rp_run[r].pc = "waiting"
    /\ \E np \in BOOLEAN :
        rp_run' = [rp_run EXCEPT ![r] = RunResolve(rp_run[r], rp_script, np)]
    /\ UNCHANGED <<rp_script, notRp>>

\* The reactor runs the scheduled task.
RpRunTask(r) ==
    /\ Turn(r)
    /\ rp_run[r].pc = "queued"
    /\ rp_run' = [rp_run EXCEPT ![r] = TaskResume(rp_run[r])]
    /\ UNCHANGED <<rp_script, notRp>>

RpNext ==
    \/ \E r \in {1, 2} : RpCall(r)
    \/ \E r \in {1, 2} : RpIter(r)
    \/ \E r \in {1, 2} : RpResolve(r)
    \/ \E r \in {1, 2} : RpRunTask(r)

SpecPair == RpInit /\ [][RpNext]_vars

\* What the script lets one see of the first k invocations: what each
\* returned and, for a pending future, what it resolved to.
RECURSIVE Played(_, _)
Played(script, k) ==
    IF k = 0 THEN <<>>
    ELSE Played(script, k - 1) \o
            (IF CallOutcomeOf(script[k]) = "pending"
             THEN <<"pending", LateOutcomeOf(script[k])>>
             ELSE <<script[k]>>)

\* C25: two calls of repeat with the same behaviour of action and any answers
\* of need_preempt() invoke action the same number of times, in the order
\* of the script without a gap, and end with the same future; a yield adds
\* a run of the task and nothing else.
C25_PreemptionIsUnobservable ==
    /\ \A r \in {1, 2} :
        (rp_run[r].pc \in {"loop", "queued", "done"}) =>
            rp_run[r].log = Played(rp_script, rp_run[r].calls)
    /\ (AtRest(rp_run[1]) /\ AtRest(rp_run[2])) =>
        /\ rp_run[1].calls = rp_run[2].calls
        /\ rp_run[1].log = rp_run[2].log
        /\ rp_run[1].pc = rp_run[2].pc
        /\ rp_run[1].pc = "done" => rp_run[1].ret = rp_run[2].ret

\* C25 witness: action answers continue, continue, stop at once; the first
\* call never yielded, the second yielded after each continue, and both are
\* done with a value after three invocations.
C25_Witness ==
    /\ rp_script = <<"ready_continue", "ready_continue", "ready_stop">>
    /\ rp_run[1].yields = 0
    /\ rp_run[2].yields = 2
    /\ rp_run[1].pc = "done"
    /\ rp_run[2].pc = "done"
    /\ rp_run[2].ret = Fut("value")

====
